---------------------------- MODULE Spec2Model ----------------------------
(***************************************************************************)
(* Verification model of parts of the FutureSDR examples:                  *)
(*                                                                         *)
(*  - the direction-finding chain: PhaseComparator::work feeding the       *)
(*    Timeseries GUI block and its handle (specification Spec),            *)
(*  - the UDP bridge tasks of uav_loopback (specification SpecBridge),     *)
(*  - the merge selector the uav_loopback flowgraph builds                 *)
(*    (specification SpecSel),                                             *)
(*  - the bridge tasks with frames of any kind and failing socket          *)
(*    operations (specification SpecBridgeFaults),                         *)
(*  - the operator's index loop of uav_loopback with the two selectors'    *)
(*    index and the message router (specification SpecCtl),                *)
(*  - the phase difference of one chunk pair (specification SpecPhase).    *)
(*                                                                         *)
(* Every specification starts from the same Init and leaves the variables  *)
(* of the other parts unchanged.                                           *)
(***************************************************************************)
EXTENDS Integers, Sequences, FiniteSets, TLC

VARIABLES
    \* ---- direction finding: PhaseComparator ----
    in_fed,       \* [0..1 -> Nat]: elements upstream has written to input i so far
    in_cons,      \* [0..1 -> Nat]: elements the block has consumed from input i
    in_fin,       \* [0..1 -> BOOLEAN]: sio.input(i).finished()
    out_buf,      \* produced values not yet consumed by the Timeseries block
    pc_produced,  \* number of values produced so far
    pc_finished,  \* io.finished as left by the last work invocation
    pc_last,      \* record of the last work invocation (history variable)
    pc_tick,      \* parity of the number of work invocations (history variable)
    \* ---- direction finding: Timeseries and its handle ----
    ts_chan,      \* the line's channel: a sequence of buffers (Vec<f64>)
    ts_values,    \* line.values
    ts_finished,  \* io.finished of the Timeseries block
    ts_last,      \* record of the last Timeseries work invocation (history variable)
    \* ---- uav_loopback: UDP bridge tasks ----
    br_mode,      \* "init" before main reaches the bridge setup, then "server" or "client"
    in_pc,        \* position of the inbound task
    buf,          \* buf of the inbound task
    in_n,         \* n of the inbound task
    in_e,         \* e of the inbound task (server mode)
    router_in,    \* calls delivered to message_selector's message_in port, in order
    rx_endpoint,  \* oneshot channel of the WLAN outbound task
    rx_endpoint2, \* oneshot channel of the Zigbee outbound task
    out_pc,       \* [{"wlan", "zigbee"} -> position of the outbound task]
    endpoint,     \* [{"wlan", "zigbee"} -> endpoint of the outbound task]
    rxed_frames,  \* [{"wlan", "zigbee"} -> queue of the frame channel]
    udp_sent,     \* datagrams sent by the outbound tasks, in order
    n_frames,     \* number of frames the decoders have emitted so far
    rx_log,       \* datagrams received so far (history variable)
    handoffs,     \* [{"wlan", "zigbee"} -> number of values sent on the oneshot channel]
    \* ---- uav_loopback: the merge selector (sink_selector) ----
    sel_policy,   \* "unset" before the selector is constructed, then its drop policy
    sel_index,    \* the active input index
    sel_in,       \* [0..1 -> unread elements of input i]
    sel_fed,      \* [0..1 -> number of elements written to input i so far]
    sel_out,      \* all elements produced on out0 so far, in order
    sel_space,    \* free space of the output buffer, in elements
    sel_waited_out, \* an element that had waited unread on a non-active input was produced
    sel_scen,     \* how far the run follows: feed input 0, switch to 1, feed input 1
    \* ---- uav_loopback: the operator's index loop, the fan-out selector, the router ----
    op_pc,        \* position of the loop at the end of main
    op_index,     \* new_index of the loop
    op_lines,     \* number of lines read so far
    op_last,      \* the last in-range index the operator entered (history variable)
    op_line,      \* the line read last (history variable)
    op_ok,        \* the line read last parsed as a u32 (history variable)
    ctl_rejected, \* [block -> number of the last line whose index it ignored, or 0]
    ctl_sent,     \* control messages sent for the line being handled (history variable)
    ctl_inflight, \* the control message sent and not yet handled, or None
    src_index,    \* output index of the fan-out selector (src_selector)
    msg_index,    \* selected index of the message router (message_selector)
    msg_out,      \* payloads the router has forwarded so far: [dst, blob, idx]
    msg_n,        \* payloads the router has handled so far
    \* ---- uav_loopback: failures inside the bridge tasks ----
    io_failed,    \* [task -> a socket operation of the task has failed] (history variable)
    io_pc,        \* [task -> position of the task right after its last failure]
    n_faults,     \* number of socket failures so far
    discarded,    \* [proto -> a payload that is no Blob was discarded] (history variable)
    \* ---- direction finding: the phases of one chunk pair ----
    ph_last,      \* record of the last chunk pair compared (history variable)
    \* ---- uav_loopback: the start of main ----
    main_pc,      \* position of main before its index loop
    args_name,    \* the drop-policy name on the command line ("" before it is parsed)
    args_drop_policy, \* args.drop_policy
    \* ---- direction finding: the GUI side of a line ----
    pu_last       \* values removed by the last process_updates (history variable)

pcVars == <<in_fed, in_cons, in_fin, out_buf, pc_produced, pc_finished, pc_last, pc_tick>>
tsVars == <<ts_chan, ts_values, ts_finished, ts_last>>
brVars == <<br_mode, in_pc, buf, in_n, in_e, router_in, rx_endpoint, rx_endpoint2,
            out_pc, endpoint, rxed_frames, udp_sent, n_frames, rx_log, handoffs>>
selVars == <<sel_policy, sel_index, sel_in, sel_fed, sel_out, sel_space, sel_waited_out,
             sel_scen>>
ctlVars == <<op_pc, op_index, op_lines, op_last, op_line, op_ok, ctl_rejected, ctl_sent,
             ctl_inflight, src_index, msg_index, msg_out, msg_n>>
bfVars == <<io_failed, io_pc, n_faults, discarded>>
phVars == <<ph_last>>
mainVars == <<main_pc, args_name, args_drop_policy>>
guiVars == <<pu_last>>
vars == <<pcVars, tsVars, brVars, selVars, ctlVars, bfVars, phVars, mainVars, guiVars>>

-----------------------------------------------------------------------------
(* Bounds of the model *)

\* PhaseComparator::new(2048) in the source; the transform length of the model
fft_size == 2
\* elements upstream writes to one input over a run
MaxFed == 6
\* capacity of an input buffer of the PhaseComparator, in elements
InCap == 6
\* capacity of the buffer between PhaseComparator and Timeseries, in elements
OutCap == 2
\* channel(256) in the source; the channel capacity of the model, in buffers
ChanCap == 2
\* max_values: 10_000 in the source; the number of values a line keeps in the model
max_values == 2
\* vec![0u8; 1024] in the source; the length of the receive buffer of the model
BufSize == 2
\* the 24 byte header of a decoded WLAN frame in the source; its length in the model
HeaderLen == 2
\* mpsc::channel::<Pmt>(100) in the source; the capacity of a frame channel of the model
FrameCap == 2
\* datagrams that arrive at the socket over a run
MaxDgrams == 2
\* frames a decoder emits over a run
MaxFrames == 2
\* the half turn pi in phase steps: a phase is a whole number of steps of pi / PhaseSteps
PhaseSteps == 6
\* lines the operator enters over a run
MaxLines == 2
\* characters of a line the operator enters, the line end not counted
MaxLineLen == 1
\* payloads that reach the router's message_in port over a run
MaxMsgs == 2
\* socket operations that fail over a run
MaxFaults == 1
\* elements written to one input of the merge selector over a run
MaxSelFed == 3
\* capacity of the output buffer of the merge selector, in elements
SelOutCap == 2

-----------------------------------------------------------------------------
(* Helpers *)

Min(a, b) == IF a <= b THEN a ELSE b

\* the last n elements of s (all of s when it is shorter)
Tail_n(s, n) == IF Len(s) <= n THEN s ELSE SubSeq(s, Len(s) - n + 1, Len(s))

RECURSIVE Flatten(_)
Flatten(ss) == IF ss = <<>> THEN <<>> ELSE Head(ss) \o Flatten(Tail(ss))

-----------------------------------------------------------------------------
(* PhaseComparator *)

\* input1.len(), input2.len(): the unread elements of input i
avail(i) == in_fed[i] - in_cons[i]

\* output.len(): the free space of the output buffer, in f64 elements
space == OutCap - Len(out_buf)

\* let ilen = usize::min(input1.len(), input2.len());
ilen(a1, a2) == Min(a1, a2)

\* faulty variant: the output space does not limit the number of chunks
num_chunks_nospace(a1, a2, s) == ilen(a1, a2) \div fft_size

\* let num_chunks = usize::min(output.len(), ilen / self.fft_size);
num_chunks(a1, a2, s) == Min(s, ilen(a1, a2) \div fft_size)

\* faulty variant: m is not rounded down to whole chunks
m_partial(a1, a2, s) == Min(ilen(a1, a2), s * fft_size)

\* let m = num_chunks * self.fft_size;
m_of(a1, a2, s) == num_chunks(a1, a2, s) * fft_size

\* faulty variant: the second input is advanced by the number of chunks
consume1_chunks(m) == m \div fft_size

\* sio.input(0).consume(m); sio.input(1).consume(m);
consume0(m) == m
consume1(m) == m

\* sio.output(0).produce(num_chunks);
produce_n(nc) == nc

\* faulty variant: chunk j of input 0 is paired with chunk j + 1 of input 1
phase_output_shifted(c0, c1, nc) ==
    [j \in 1..nc |-> <<c0 + (j - 1) * fft_size, c1 + j * fft_size>>]

\* faulty variant: the values of one invocation are written in reverse order
phase_output_reversed(c0, c1, nc) ==
    [j \in 1..nc |-> <<c0 + (nc - j) * fft_size, c1 + (nc - j) * fft_size>>]

\* The value computed from the chunk pair number j (0-based) of an invocation
\* that starts at stream offsets c0 and c1: it is identified by the stream
\* offsets of the two chunks it is computed from.
phase_output(c0, c1, nc) ==
    [j \in 1..nc |-> <<c0 + (j - 1) * fft_size, c1 + (j - 1) * fft_size>>]

\* io.finished = sio.input(0).finished();  (reached only when m > 0)
finished_after(m, fin0, before) == IF m = 0 THEN before ELSE fin0

NoWork == [ran |-> FALSE, a1 |-> 0, a2 |-> 0, s |-> 0, m |-> 0,
           c0 |-> 0, c1 |-> 0, p |-> 0, fin0 |-> FALSE, res |-> "ok"]

\* One invocation of PhaseComparator::work. The runtime resets io.finished to
\* false before every invocation and stops invoking the block once work
\* leaves it true.
PhaseComparator_work ==
    /\ ~pc_finished
    /\ LET a1 == avail(0)
           a2 == avail(1)
           s  == space
           nc == num_chunks(a1, a2, s)
           m  == m_of(a1, a2, s)
       IN  /\ in_cons' = [in_cons EXCEPT ![0] = @ + consume0(m), ![1] = @ + consume1(m)]
           /\ out_buf' = out_buf \o phase_output(in_cons[0], in_cons[1], produce_n(nc))
           /\ pc_produced' = pc_produced + produce_n(nc)
           /\ pc_finished' = finished_after(m, in_fin[0], FALSE)
           /\ pc_last' = [ran |-> TRUE, a1 |-> a1, a2 |-> a2, s |-> s, m |-> m,
                          c0 |-> in_cons'[0] - in_cons[0], c1 |-> in_cons'[1] - in_cons[1],
                          p |-> Len(out_buf') - Len(out_buf),
                          fin0 |-> in_fin[0],
                          \* rustfft panics when the buffer is no multiple of the length
                          res |-> IF m % fft_size = 0 THEN "ok" ELSE "panic"]
           /\ pc_tick' = 1 - pc_tick
    /\ UNCHANGED <<in_fed, in_fin, tsVars, brVars, selVars, ctlVars, bfVars, phVars, mainVars, guiVars>>

\* Upstream writes n more elements to input i.
Upstream_produce(i, n) ==
    /\ ~in_fin[i]
    /\ in_fed[i] + n <= MaxFed
    /\ avail(i) + n <= InCap
    /\ in_fed' = [in_fed EXCEPT ![i] = @ + n]
    /\ UNCHANGED <<in_cons, in_fin, out_buf, pc_produced, pc_finished, pc_last, pc_tick, tsVars, brVars, selVars, ctlVars, bfVars, phVars, mainVars, guiVars>>

\* Upstream of input i terminates: the input reports finished from now on.
Upstream_finish(i) ==
    /\ ~in_fin[i]
    /\ in_fin' = [in_fin EXCEPT ![i] = TRUE]
    /\ UNCHANGED <<in_fed, in_cons, out_buf, pc_produced, pc_finished, pc_last, pc_tick, tsVars, brVars, selVars, ctlVars, bfVars, phVars, mainVars, guiVars>>

-----------------------------------------------------------------------------
(* Timeseries<f64> and TimeseriesHandle *)

\* let _ = sender.try_send(...): the buffer is enqueued unless the channel is full
try_send(chan, buffer) == IF Len(chan) < ChanCap THEN Append(chan, buffer) ELSE chan

\* faulty variant: one element more than the view holds is declared consumed
ts_consume_more(L) == L + 1

\* sio.input(i).consume(input.len());
ts_consume(L) == L

NoTsWork == [ran |-> FALSE, L |-> 0, c |-> 0, sent |-> FALSE]

\* One invocation of Timeseries::work for the single line "in", whose input is
\* the output of the PhaseComparator.
Timeseries_work ==
    /\ ~ts_finished
    /\ LET input == out_buf
           L == Len(input)
       IN  /\ ts_chan' = try_send(ts_chan, input)
           /\ out_buf' = SubSeq(out_buf, ts_consume(L) + 1, Len(out_buf))
           /\ ts_last' = [ran |-> TRUE, L |-> L, c |-> ts_consume(L),
                          sent |-> ts_chan' # ts_chan]
    /\ ts_finished' = pc_finished
    /\ UNCHANGED <<in_fed, in_cons, in_fin, pc_produced, pc_finished, pc_last, pc_tick,
                   ts_values, brVars, selVars, ctlVars, bfVars, phVars, mainVars, guiVars>>

\* faulty variant: the newest values are removed, from the back
trim_back(values) == SubSeq(values, 1, Min(Len(values), max_values))

\* while line.values.len() > line.max_values { line.values.pop_front(); }
trim(values) == Tail_n(values, max_values)

\* TimeseriesHandle::process_updates
\* no value removed from the line yet
NoUpdate == [popped |-> 0]

process_updates ==
    /\ ts_values' = trim(ts_values \o Flatten(ts_chan))
    /\ ts_chan' = <<>>
    /\ pu_last' = [popped |-> Len(ts_values) + Len(Flatten(ts_chan)) - Len(ts_values')]
    /\ UNCHANGED <<pcVars, ts_finished, ts_last, brVars, selVars, ctlVars, bfVars, phVars, mainVars>>

\* no chunk pair compared yet
NoChunk == [ran |-> FALSE, p1 |-> 0, p2 |-> 0, diff |-> 0, dt |-> 0]

\* chunk[0].arg(): the phase angles of the reference bin, in (-pi, pi]
Phases == (1 - PhaseSteps)..PhaseSteps

\* the reference period 1000.0 / 868.25 ns, in ticks: a phase step is two ticks
RefPeriod == 4 * PhaseSteps

\* let diff = (center_phase1 - center_phase2) as f64;
phase_diff(p1, p2) == p1 - p2

\* let diff_ns = (1000.0 / 868.25) * (diff / (std::f64::consts::PI * 2.0));
diff_ns(diff) == (RefPeriod * diff) \div (2 * PhaseSteps)

\* arg() of a reference bin of phase p multiplied by exp(j theta): the angle
\* p + theta brought back into (-pi, pi]
rotated(p, theta) ==
    ((p + theta + PhaseSteps - 1) % (2 * PhaseSteps)) - (PhaseSteps - 1)

\* The closure of phase_output for one chunk pair whose reference bins have
\* the phases p1 and p2.
phase_chunk(p1, p2) ==
    /\ ph_last' = [ran |-> TRUE, p1 |-> p1, p2 |-> p2,
                   diff |-> phase_diff(p1, p2),
                   dt |-> diff_ns(phase_diff(p1, p2))]
    /\ UNCHANGED <<pcVars, tsVars, brVars, selVars, ctlVars, bfVars, mainVars, guiVars>>

PhaseChunk == \E p1 \in Phases : \E p2 \in Phases : phase_chunk(p1, p2)

-----------------------------------------------------------------------------
(* uav_loopback: the UDP bridge tasks *)

Addrs == {"X", "Y"}
Protos == {"wlan", "zigbee"}
None == "none"
\* the inbound task and the two outbound tasks
Tasks == {"in"} \cup Protos

\* the bytes of datagram number k with length len: byte j is <<k, j>>
dgram_bytes(k, len) == [j \in 1..len |-> <<k, j>>]

\* socket.recv_from(&mut buf): the number of bytes written to buf
recv_n(len) == Min(len, BufSize)

\* socket.recv_from(&mut buf): buf after a datagram with bytes d was received
recv_buf(b, d) ==
    [j \in 1..BufSize |-> IF j <= recv_n(Len(d)) THEN d[j] ELSE b[j]]

\* faulty variant: the whole buffer is forwarded
blob_whole(b, n) == b

\* buf[0..n].to_vec()
blob_of(b, n) == SubSeq(b, 1, n)

\* handle.call(message_selector, message_in_port_id, Pmt::Blob(..))
call_message_in(src, bytes) == Append(router_in, [src |-> src, blob |-> bytes])

\* let args = Args::parse(); ... if let Some(port) = args.local_port { server }
\* else if let Some(remote) = args.remote_udp { client }; the tasks are spawned.
main_start(mode) ==
    /\ br_mode = "init"
    /\ br_mode' = mode
    /\ in_pc' = IF mode = "server" THEN "recv_first" ELSE "recv"
    /\ out_pc' = [p \in Protos |-> IF mode = "server" THEN "await_endpoint" ELSE "next"]
    /\ endpoint' = [p \in Protos |-> IF mode = "server" THEN None ELSE "remote"]
    /\ UNCHANGED <<buf, in_n, in_e, router_in, rx_endpoint, rx_endpoint2, rxed_frames,
                   udp_sent, n_frames, rx_log, handoffs, pcVars, tsVars, selVars, ctlVars, bfVars, phVars, mainVars, guiVars>>

\* a datagram of length len from address a arrives and recv_from returns it
recv_from(a, len, next_pc) ==
    LET d == dgram_bytes(Len(rx_log) + 1, len)
    IN  /\ Len(rx_log) < MaxDgrams
        /\ buf' = recv_buf(buf, d)
        /\ in_n' = recv_n(len)
        /\ rx_log' = Append(rx_log, [from |-> a, bytes |-> SubSeq(d, 1, Min(len, BufSize))])
        /\ in_pc' = next_pc

\* server: let (n, e) = socket.recv_from(&mut buf).await.unwrap();
server_recv_first(a, len) ==
    /\ br_mode = "server" /\ in_pc = "recv_first"
    /\ recv_from(a, len, "call_first")
    /\ in_e' = a
    /\ UNCHANGED <<br_mode, router_in, rx_endpoint, rx_endpoint2, out_pc, endpoint,
                   rxed_frames, udp_sent, n_frames, handoffs, pcVars, tsVars, selVars, ctlVars, bfVars, phVars, mainVars, guiVars>>

\* server: handle.call(.., Pmt::Blob(buf[0..n].to_vec())).await.unwrap(); (first datagram)
server_call_first ==
    /\ in_pc = "call_first"
    /\ router_in' = call_message_in("udp", blob_of(buf, in_n))
    /\ in_pc' = "send_endpoint"
    /\ UNCHANGED <<br_mode, buf, in_n, in_e, rx_endpoint, rx_endpoint2, out_pc,
                   endpoint, rxed_frames, udp_sent, n_frames, rx_log, handoffs,
                   pcVars, tsVars, selVars, ctlVars, bfVars, phVars, mainVars, guiVars>>

\* server: tx_endpoint.send(e).unwrap();
server_send_endpoint ==
    /\ in_pc = "send_endpoint"
    /\ rx_endpoint' = in_e
    /\ handoffs' = [handoffs EXCEPT !["wlan"] = @ + 1]
    /\ in_pc' = "send_endpoint2"
    /\ UNCHANGED <<br_mode, buf, in_n, in_e, router_in, rx_endpoint2, out_pc,
                   endpoint, rxed_frames, udp_sent, n_frames, rx_log, pcVars, tsVars, selVars, ctlVars, bfVars, phVars, mainVars, guiVars>>

\* server: tx_endpoint2.send(e).unwrap();
server_send_endpoint2 ==
    /\ in_pc = "send_endpoint2"
    /\ rx_endpoint2' = in_e
    /\ handoffs' = [handoffs EXCEPT !["zigbee"] = @ + 1]
    /\ in_pc' = "recv"
    /\ UNCHANGED <<br_mode, buf, in_n, in_e, router_in, rx_endpoint, out_pc,
                   endpoint, rxed_frames, udp_sent, n_frames, rx_log, pcVars, tsVars, selVars, ctlVars, bfVars, phVars, mainVars, guiVars>>

\* faulty variant: the outbound tasks follow the sender of the latest datagram
inbound_recv_follow(a, len) ==
    /\ br_mode \in {"server", "client"} /\ in_pc = "recv"
    /\ recv_from(a, len, "call")
    /\ endpoint' = [p \in Protos |-> IF endpoint[p] = None THEN None ELSE a]
    /\ UNCHANGED <<br_mode, in_e, router_in, rx_endpoint, rx_endpoint2, out_pc,
                   rxed_frames, udp_sent, n_frames, handoffs, pcVars, tsVars, selVars, ctlVars, bfVars, phVars, mainVars, guiVars>>

\* server loop: let (n, _) = socket.recv_from(&mut buf).await.unwrap();
\* client loop: match socket.recv_from(&mut buf).await { Ok((n, s)) => ..
inbound_recv(a, len) ==
    /\ br_mode \in {"server", "client"} /\ in_pc = "recv"
    /\ recv_from(a, len, "call")
    /\ UNCHANGED <<br_mode, in_e, router_in, rx_endpoint, rx_endpoint2, out_pc,
                   endpoint, rxed_frames, udp_sent, n_frames, handoffs, pcVars, tsVars, selVars, ctlVars, bfVars, phVars, mainVars, guiVars>>

\* server and client loop: handle.call(.., Pmt::Blob(buf[0..n].to_vec())).await.unwrap();
inbound_call ==
    /\ in_pc = "call"
    /\ router_in' = call_message_in("udp", blob_of(buf, in_n))
    /\ in_pc' = "recv"
    /\ UNCHANGED <<br_mode, buf, in_n, in_e, rx_endpoint, rx_endpoint2, out_pc,
                   endpoint, rxed_frames, udp_sent, n_frames, rx_log, handoffs,
                   pcVars, tsVars, selVars, ctlVars, bfVars, phVars, mainVars, guiVars>>

\* the bytes of frame number k with length len
frame_bytes(k, len) == [j \in 1..len |-> <<"f", k, j>>]

\* A decoder emits a frame and its MessagePipe queues it on the frame channel
\* (it waits while the channel is full). early: queued before the first
\* datagram arrived.
frame_queued(p, isblob, len) ==
    /\ br_mode # "init"
    /\ n_frames < MaxFrames
    /\ Len(rxed_frames[p]) < FrameCap
    /\ n_frames' = n_frames + 1
    /\ rxed_frames' = [rxed_frames EXCEPT ![p] =
            Append(@, [blob |-> isblob,
                       v |-> IF isblob THEN frame_bytes(n_frames + 1, len) ELSE <<>>,
                       early |-> rx_log = <<>>])]
    /\ UNCHANGED <<br_mode, in_pc, buf, in_n, in_e, router_in, rx_endpoint,
                   rx_endpoint2, out_pc, endpoint, udp_sent, rx_log, handoffs,
                   pcVars, tsVars, selVars, ctlVars, bfVars, phVars, mainVars, guiVars>>

\* faulty variant: both outbound tasks await the same oneshot channel
oneshot_shared(p) == rx_endpoint

\* the oneshot channel the outbound task of p awaits: rx_endpoint (WLAN),
\* rx_endpoint2 (Zigbee)
oneshot_of(p) == IF p = "wlan" THEN rx_endpoint ELSE rx_endpoint2

\* let endpoint = rx_endpoint.await.unwrap();  (both outbound tasks, server mode)
outbound_await_endpoint(p) ==
    LET ch == oneshot_of(p)
    IN  /\ out_pc[p] = "await_endpoint"
        /\ ch # None
        /\ endpoint' = [endpoint EXCEPT ![p] = ch]
        /\ out_pc' = [out_pc EXCEPT ![p] = "next"]
        /\ UNCHANGED <<br_mode, in_pc, buf, in_n, in_e, router_in, rx_endpoint,
                       rx_endpoint2, rxed_frames, udp_sent, n_frames, rx_log, handoffs,
                       pcVars, tsVars, selVars, ctlVars, bfVars, phVars, mainVars, guiVars>>

\* &v[24..] for the WLAN task, &v for the Zigbee task
payload_of(p, v) == IF p = "wlan" THEN SubSeq(v, HeaderLen + 1, Len(v)) ELSE v

\* v.len() - 24 and &v[24..] panic for a WLAN blob shorter than the header
faults(p, f) == p = "wlan" /\ f.blob /\ Len(f.v) < HeaderLen

\* faulty variant: a payload of any variant is sent
outbound_sends_any(p, f) == ~faults(p, f)

\* if let Pmt::Blob(v) = p { .. send_to(..) } else { warn!(..) }
outbound_sends(p, f) == f.blob /\ ~faults(p, f)

\* the other outbound task
other(p) == IF p = "wlan" THEN "zigbee" ELSE "wlan"

\* if let Some(p) = <proto>_rxed_frames.next().await { if let Pmt::Blob(v) = p {
\*     socket.send_to(&v[24..], endpoint) (server) / socket.send(&v[24..]) (client)
\* } else { warn!(..) } }
outbound_next(p) ==
    /\ out_pc[p] = "next"
    /\ rxed_frames[p] # <<>>
    /\ LET f == Head(rxed_frames[p])
       IN  /\ rxed_frames' = [rxed_frames EXCEPT ![p] = Tail(@)]
           /\ out_pc' = [out_pc EXCEPT ![p] = IF faults(p, f) THEN "panicked" ELSE "next"]
           /\ udp_sent' = IF outbound_sends(p, f)
                          THEN Append(udp_sent,
                                 [via |-> p, to |-> endpoint[p], bytes |-> payload_of(p, f.v),
                                  early |-> f.early,
                                  last |-> IF rx_log = <<>> THEN None
                                           ELSE rx_log[Len(rx_log)].from,
                                  after_discard |-> discarded[p],
                                  peer_pc |-> out_pc[other(p)]])
                          ELSE udp_sent
           /\ discarded' = [discarded EXCEPT ![p] = @ \/ ~f.blob]
    /\ UNCHANGED <<br_mode, in_pc, buf, in_n, in_e, router_in, rx_endpoint,
                   rx_endpoint2, endpoint, n_frames, rx_log, handoffs, pcVars, tsVars,
                   selVars, ctlVars, io_failed, io_pc, n_faults, phVars, mainVars, guiVars>>

\* A socket operation of task t fails; the task goes on at position pc.
io_failure(t, pc) ==
    /\ n_faults < MaxFaults
    /\ n_faults' = n_faults + 1
    /\ io_failed' = [io_failed EXCEPT ![t] = TRUE]
    /\ io_pc' = [io_pc EXCEPT ![t] = pc]

\* server: socket.recv_from(&mut buf).await.unwrap() with recv_from returning Err:
\* the task panics (first datagram and loop).
\* client: Err(e) => println!("ERROR: {:?}", e), and the loop goes on.
inbound_recv_err ==
    /\ \/ br_mode = "server" /\ in_pc \in {"recv_first", "recv"}
       \/ br_mode = "client" /\ in_pc = "recv"
    /\ in_pc' = IF br_mode = "server" THEN "panicked" ELSE "recv"
    /\ io_failure("in", in_pc')
    /\ UNCHANGED <<br_mode, buf, in_n, in_e, router_in, rx_endpoint, rx_endpoint2, out_pc,
                   endpoint, rxed_frames, udp_sent, n_frames, rx_log, handoffs, discarded,
                   pcVars, tsVars, selVars, ctlVars, phVars, mainVars, guiVars>>

\* socket2.send_to(&v[24..], endpoint).await.unwrap() (client: send) with the
\* send returning Err: the task panics; the frame was taken from the channel.
outbound_send_err(p) ==
    /\ out_pc[p] = "next"
    /\ rxed_frames[p] # <<>>
    /\ outbound_sends(p, Head(rxed_frames[p]))
    /\ rxed_frames' = [rxed_frames EXCEPT ![p] = Tail(@)]
    /\ out_pc' = [out_pc EXCEPT ![p] = "panicked"]
    /\ io_failure(p, "panicked")
    /\ UNCHANGED <<br_mode, in_pc, buf, in_n, in_e, router_in, rx_endpoint, rx_endpoint2,
                   endpoint, udp_sent, n_frames, rx_log, handoffs, discarded,
                   pcVars, tsVars, selVars, ctlVars, phVars, mainVars, guiVars>>

\* let endpoint = rx_endpoint.await.unwrap(); when the inbound task has ended
\* before it sent on the oneshot channel: the sender is dropped, the await
\* yields Err(Canceled) and the outbound task panics.
outbound_await_canceled(p) ==
    LET ch == oneshot_of(p)
    IN  /\ out_pc[p] = "await_endpoint"
        /\ in_pc = "panicked"
        /\ ch = None
        /\ out_pc' = [out_pc EXCEPT ![p] = "panicked"]
        /\ UNCHANGED <<br_mode, in_pc, buf, in_n, in_e, router_in, rx_endpoint,
                       rx_endpoint2, endpoint, rxed_frames, udp_sent, n_frames, rx_log,
                       handoffs, pcVars, tsVars, selVars, ctlVars, bfVars, phVars, mainVars, guiVars>>

Main == \E mode \in {"server", "client"} : main_start(mode)

DgramLens == {1, BufSize + 1}

ServerRecvFirst == \E a \in Addrs : \E len \in DgramLens : server_recv_first(a, len)

InboundRecv == \E a \in Addrs : \E len \in DgramLens : inbound_recv(a, len)

FrameLens == {HeaderLen - 1, HeaderLen + 1}

FrameQueued ==
    \E p \in Protos : \E isblob \in BOOLEAN : \E len \in FrameLens :
        (isblob \/ len = HeaderLen + 1) /\ frame_queued(p, isblob, len)

\* the decoders emit well-formed frames only: blobs longer than the header
FrameQueuedBlob == \E p \in Protos : frame_queued(p, TRUE, HeaderLen + 1)

OutboundAwait == \E p \in Protos : outbound_await_endpoint(p)

OutboundNext == \E p \in Protos : outbound_next(p)

NextBridge ==
    \/ Main
    \/ ServerRecvFirst
    \/ server_call_first
    \/ server_send_endpoint
    \/ server_send_endpoint2
    \/ InboundRecv
    \/ inbound_call
    \/ FrameQueuedBlob
    \/ OutboundAwait
    \/ OutboundNext

OutboundSendErr == \E p \in Protos : outbound_send_err(p)

OutboundAwaitCanceled == \E p \in Protos : outbound_await_canceled(p)

\* one peer, which sends short datagrams only
ServerRecvFirstShort == server_recv_first("X", 1)

InboundRecvShort == inbound_recv("X", 1)

\* the bridge tasks with decoders that emit frames of any kind and length, and
\* with socket operations that can fail
NextBridgeFaults ==
    \/ Main
    \/ ServerRecvFirstShort
    \/ server_call_first
    \/ server_send_endpoint
    \/ server_send_endpoint2
    \/ InboundRecvShort
    \/ inbound_call
    \/ FrameQueued
    \/ OutboundAwait
    \/ OutboundNext
    \/ inbound_recv_err
    \/ OutboundSendErr
    \/ OutboundAwaitCanceled

-----------------------------------------------------------------------------
(* uav_loopback: the merge selector, Selector::<Complex32, 2, 1>            *)
(* (the block itself is not part of the sources at hand; it is modelled     *)
(* from the description of the Dynamic Stream Selector, merge shape)        *)

SelInputs == 0..1

\* An unread element is <<input, number, waited>>: the number-th element
\* written to that input; waited is a history flag: the element has been
\* unread on its input while that input was not the active one. On the output
\* an element is <<input, number>>.
Elem(i, k, w) == <<i, k, w>>

\* the elements of a sequence
Range(s) == {s[j] : j \in 1..Len(s)}

\* the numbers of the elements of s that come from input i, in order
RECURSIVE FromInput(_, _)
FromInput(s, i) ==
    IF s = <<>> THEN <<>>
    ELSE IF Head(s)[1] = i THEN <<Head(s)[2]>> \o FromInput(Tail(s), i)
         ELSE FromInput(Tail(s), i)

\* the numbers 1..n
UpTo(n) == [j \in 1..n |-> j]

\* Selector::new(args.drop_policy)
selector_new(policy) ==
    /\ sel_policy = "unset"
    /\ sel_policy' = policy
    /\ UNCHANGED <<sel_index, sel_in, sel_fed, sel_out, sel_space, sel_waited_out, sel_scen,
                   pcVars, tsVars, brVars, ctlVars, bfVars, phVars, mainVars, guiVars>>

\* faulty variant: the copy is limited by the input only
sel_copy_n_input(ai, s) == ai

\* merge: the number of elements copied from the active input
sel_copy_n(ai, s) == Min(ai, s)

\* faulty variant: non-active inputs are never drained
sel_drop_n_never(policy, aj) == 0

\* the number of elements discarded from a non-active input
sel_drop_n(policy, aj) == IF policy = "none" THEN 0 ELSE aj

\* the input the data path reads: the active one
sel_active(idx) == idx

\* One work invocation of the merge selector.
selector_work ==
    /\ sel_policy # "unset"
    /\ LET idx == sel_active(sel_index)
           n == sel_copy_n(Len(sel_in[idx]), sel_space)
           cons == [i \in SelInputs |->
                       IF i = idx THEN n ELSE sel_drop_n(sel_policy, Len(sel_in[i]))]
           copied == SubSeq(sel_in[idx], 1, n)
       IN  /\ sel_out' = sel_out \o [j \in 1..n |-> <<copied[j][1], copied[j][2]>>]
           /\ sel_waited_out' = (sel_waited_out \/ \E j \in 1..n : copied[j][3])
           /\ sel_space' = sel_space - n
           /\ sel_in' = [i \in SelInputs |-> SubSeq(sel_in[i], cons[i] + 1, Len(sel_in[i]))]
    /\ UNCHANGED <<sel_policy, sel_index, sel_fed, sel_scen, pcVars, tsVars, brVars, ctlVars, bfVars, phVars, mainVars, guiVars>>

\* faulty variant: an index that is out of range wraps around
sel_new_index_mod(cur, v) == v % 2

\* the index after an index-setting message with value v: a value that is out
\* of range is ignored
sel_new_index(cur, v) == IF v \in SelInputs THEN v ELSE cur

\* the state of the merge selector: its active input, the unread elements of
\* its inputs, its output and the space left in it, and its drop policy
sel_state ==
    [index |-> sel_index, in |-> sel_in, out |-> sel_out, space |-> sel_space,
     policy |-> sel_policy]

\* faulty variant: handling the message discards the oldest unread element of
\* every input that is not the active one
input_index_applied_dropping(st, v) ==
    LET idx == sel_new_index(st.index, v)
    IN  [st EXCEPT !.index = idx,
                   !.in = [i \in SelInputs |->
                              IF i = idx \/ st.in[i] = <<>> THEN st.in[i]
                              ELSE Tail(st.in[i])]]

\* The state after an index-setting message with value v is handled in state
\* st: the index is set and the data is left alone (elements on an input that
\* is not the active one are marked as having waited there).
input_index_applied(st, v) ==
    LET idx == sel_new_index(st.index, v)
    IN  [st EXCEPT !.index = idx,
                   !.in = [i \in SelInputs |->
                              IF i = idx THEN st.in[i]
                              ELSE [j \in 1..Len(st.in[i]) |->
                                       Elem(i, st.in[i][j][2], TRUE)]]]

\* The handler of the input_index message port, on the state of the selector.
input_index_handler(v) ==
    /\ sel_policy # "unset"
    /\ LET st == input_index_applied(sel_state, v)
       IN  /\ sel_index' = st.index
           /\ sel_in' = st.in
           /\ sel_out' = st.out
           /\ sel_space' = st.space
           /\ sel_policy' = st.policy
    /\ sel_scen' = IF sel_scen = "A" /\ v = 1 /\ sel_fed[0] = MaxSelFed
                   THEN (IF sel_in[0] = <<>> THEN "Bclean" ELSE "Blossy")
                   ELSE IF sel_index' = sel_index THEN sel_scen ELSE "off"
    /\ UNCHANGED <<sel_fed, sel_waited_out>>

\* An index-setting message with value v is handled (whoever sent it).
set_input_index(v) ==
    /\ input_index_handler(v)
    /\ UNCHANGED <<pcVars, tsVars, brVars, ctlVars, bfVars, phVars, mainVars, guiVars>>

\* Upstream writes one more element to input i.
sel_feed(i) ==
    /\ sel_policy # "unset"
    /\ sel_fed[i] < MaxSelFed
    /\ sel_fed' = [sel_fed EXCEPT ![i] = @ + 1]
    /\ sel_in' = [sel_in EXCEPT ![i] = Append(@, Elem(i, sel_fed[i] + 1, i # sel_index))]
    /\ sel_scen' = IF (sel_scen = "A" /\ i = 0) \/ (sel_scen \in {"Bclean", "Blossy"} /\ i = 1)
                   THEN sel_scen ELSE "off"
    /\ UNCHANGED <<sel_policy, sel_index, sel_out, sel_space, sel_waited_out,
                   pcVars, tsVars, brVars, ctlVars, bfVars, phVars, mainVars, guiVars>>

\* Downstream (the FIR filter) reads the output buffer: its space is free again.
sel_downstream ==
    /\ sel_space < SelOutCap
    /\ sel_space' = SelOutCap
    /\ UNCHANGED <<sel_policy, sel_index, sel_in, sel_fed, sel_out, sel_waited_out, sel_scen,
                   pcVars, tsVars, brVars, ctlVars, bfVars, phVars, mainVars, guiVars>>

SelectorNew == \E policy \in {"none", "drop-all"} : selector_new(policy)

SetInputIndex == \E v \in 0..2 : set_input_index(v)

SelFeed == \E i \in SelInputs : sel_feed(i)

NextSel ==
    \/ SelectorNew
    \/ SetInputIndex
    \/ SelFeed
    \/ selector_work
    \/ sel_downstream

-----------------------------------------------------------------------------
(* uav_loopback: the operator's index loop at the end of main, and the three *)
(* blocks it sends the index to: the fan-out selector src_selector, the      *)
(* merge selector sink_selector and the message router message_selector     *)
(* (the blocks themselves are not part of the sources at hand; their         *)
(* handlers are modelled from the descriptions of the Dynamic Stream         *)
(* Selector and of the Message Router)                                       *)

Blocks == {"src", "sink", "msg"}

\* message_selector's outputs: out0, out1
Dests == 0..1

\* connect_message(message_selector, "out0", wlan_mac, "tx"),
\* connect_message(message_selector, "out1", zigbee_mac, "tx")
routing_table == [d \in Dests |-> IF d = 0 THEN "wlan_mac.tx" ELSE "zigbee_mac.tx"]

Digits == {"0", "1", "2"}
Whitespace == {" ", "\n"}
Chars == Digits \cup {" ", "x"}

\* the lines read_line can return: up to MaxLineLen characters and the line end
Lines == UNION {{t \o <<"\n">> : t \in [1..n -> Chars]} : n \in 0..MaxLineLen}

\* input.retain(|c| !c.is_whitespace())
retain(line) == SelectSeq(line, LAMBDA c : c \notin Whitespace)

digit(c) == IF c = "0" THEN 0 ELSE IF c = "1" THEN 1 ELSE 2

RECURSIVE decimal(_)
decimal(t) == IF t = <<>> THEN 0
              ELSE 10 * decimal(SubSeq(t, 1, Len(t) - 1)) + digit(t[Len(t)])

\* input.parse::<u32>(): the lines of the model are too short to overflow
parse_u32(t) ==
    IF t # <<>> /\ \A j \in 1..Len(t) : t[j] \in Digits
    THEN [ok |-> TRUE, v |-> decimal(t)]
    ELSE [ok |-> FALSE, v |-> 0]

\* no control message in flight
NoMsg == [to |-> None, pmt |-> <<"U32", 0>>]

\* faulty variant: the router is sent the index modulo the number of paths
ctl_msg_wrapped(b, new_index) ==
    [to |-> b, pmt |-> <<"U32", IF b = "msg" THEN new_index % 2 ELSE new_index>>]

\* handle.call(<block>, <port>, Pmt::U32(new_index))
ctl_msg(b, new_index) == [to |-> b, pmt |-> <<"U32", new_index>>]

\* the order of the three calls
next_block(b) == IF b = "src" THEN "sink" ELSE IF b = "sink" THEN "msg" ELSE None

\* read_line, retain, parse: if let Ok(new_index) = input.parse::<u32>() { .. }
\* else { println!("Input not parsable: {}", input); }
op_read(line) ==
    LET r == parse_u32(retain(line))
    IN  /\ sel_policy # "unset"
        /\ op_pc = [at |-> "read", b |-> None]
        /\ op_lines < MaxLines
        /\ op_lines' = op_lines + 1
        /\ op_line' = line
        /\ op_ok' = r.ok
        /\ op_index' = IF r.ok THEN r.v ELSE op_index
        /\ op_last' = IF r.ok /\ r.v \in Dests THEN r.v ELSE op_last
        /\ op_pc' = IF r.ok THEN [at |-> "call", b |-> "src"] ELSE op_pc
        /\ ctl_sent' = <<>>
        /\ UNCHANGED <<ctl_rejected, ctl_inflight, src_index, msg_index, msg_out, msg_n,
                       pcVars, tsVars, brVars, selVars, bfVars, phVars, mainVars, guiVars>>

\* async_io::block_on(input_handle.call(b, port, Pmt::U32(new_index))): the send
op_call(b) ==
    /\ op_pc = [at |-> "call", b |-> b]
    /\ ctl_inflight' = ctl_msg(b, op_index)
    /\ ctl_sent' = Append(ctl_sent, ctl_msg(b, op_index))
    /\ op_pc' = [at |-> "wait", b |-> b]
    /\ UNCHANGED <<op_index, op_lines, op_last, op_line, op_ok, ctl_rejected, src_index,
                   msg_index, msg_out, msg_n, pcVars, tsVars, brVars, selVars, bfVars, phVars, mainVars, guiVars>>

\* async_io::block_on(..)?: the call returns once the handler has run
op_resume(b) ==
    /\ op_pc = [at |-> "wait", b |-> b]
    /\ ctl_inflight = NoMsg
    /\ op_pc' = IF next_block(b) = None THEN [at |-> "read", b |-> None]
                ELSE [at |-> "call", b |-> next_block(b)]
    /\ UNCHANGED <<op_index, op_lines, op_last, op_line, op_ok, ctl_rejected, ctl_sent,
                   ctl_inflight, src_index, msg_index, msg_out, msg_n,
                   pcVars, tsVars, brVars, selVars, bfVars, phVars, mainVars, guiVars>>

\* the block b takes the control message in flight; v is out of range: noted
ctl_taken(b, v) ==
    /\ ctl_inflight.to = b
    /\ ctl_inflight' = NoMsg
    /\ ctl_rejected' = [ctl_rejected EXCEPT ![b] = IF v \in Dests THEN @ ELSE op_lines]

\* faulty variant: an index that is out of range wraps around
src_new_index_mod(cur, v) == v % 2

\* fan-out selector: the index after an index-setting message with value v
src_new_index(cur, v) == IF v \in Dests THEN v ELSE cur

\* src_selector handles the message on its output_index port
output_index_msg ==
    LET v == ctl_inflight.pmt[2]
    IN  /\ ctl_taken("src", v)
        /\ src_index' = src_new_index(src_index, v)
        /\ UNCHANGED <<op_pc, op_index, op_lines, op_last, op_line, op_ok, ctl_sent,
                       msg_index, msg_out, msg_n, pcVars, tsVars, brVars, selVars,
                       bfVars, phVars, mainVars, guiVars>>

\* sink_selector handles the message on its input_index port
input_index_msg ==
    LET v == ctl_inflight.pmt[2]
    IN  /\ ctl_taken("sink", v)
        /\ input_index_handler(v)
        /\ UNCHANGED <<op_pc, op_index, op_lines, op_last, op_line, op_ok, ctl_sent,
                       src_index, msg_index, msg_out, msg_n, pcVars, tsVars, brVars,
                       bfVars, phVars, mainVars, guiVars>>

\* faulty variant: the router stores any index
msg_new_index_any(cur, v) == v

\* message router: the selected index after an index message with value v
msg_new_index(cur, v) == IF v \in Dests THEN v ELSE cur

\* message_selector handles the message on its output_selector port
output_selector_msg ==
    LET v == ctl_inflight.pmt[2]
    IN  /\ ctl_taken("msg", v)
        /\ msg_index' = msg_new_index(msg_index, v)
        /\ UNCHANGED <<op_pc, op_index, op_lines, op_last, op_line, op_ok, ctl_sent,
                       src_index, msg_out, msg_n, pcVars, tsVars, brVars, selVars,
                       bfVars, phVars, mainVars, guiVars>>

\* faulty variant: every payload goes to out0
route_first(idx) == 0

\* the destination of a payload: the one at the current index
route(idx) == idx

\* the payload that arrives as number k
payload(k) == <<"p", k>>

\* message_selector handles a payload on its message_in port: it is forwarded
\* to the destination at the current index (dropped if there is none)
message_in(blob) ==
    /\ sel_policy # "unset"
    /\ msg_n < MaxMsgs
    /\ msg_n' = msg_n + 1
    /\ msg_out' = IF route(msg_index) \in Dests
                  THEN [msg_out EXCEPT ![route(msg_index)] =
                            Append(@, [blob |-> blob,
                                       rej |-> ctl_rejected["msg"] > 0])]
                  ELSE msg_out
    /\ UNCHANGED <<op_pc, op_index, op_lines, op_last, op_line, op_ok, ctl_rejected,
                   ctl_sent, ctl_inflight, src_index, msg_index,
                   pcVars, tsVars, brVars, selVars, bfVars, phVars, mainVars, guiVars>>

OpRead == \E line \in Lines : op_read(line)

OpCall == \E b \in Blocks : op_call(b)

OpResume == \E b \in Blocks : op_resume(b)

MessageIn == message_in(payload(msg_n + 1))

\* Selector::<Complex32, 2, 1>::new(args.drop_policy) with the default policy
SinkSelectorNew == selector_new("none")

NextCtl ==
    \/ SinkSelectorNew
    \/ OpRead
    \/ OpCall
    \/ OpResume
    \/ output_index_msg
    \/ input_index_msg
    \/ output_selector_msg
    \/ MessageIn

-----------------------------------------------------------------------------
-----------------------------------------------------------------------------
(* uav_loopback: main from the command line to the bridge tasks *)

\* the names that parse as a drop policy ("none" is the default of the option)
PolicyNames == {"none", "drop-all"}

\* the names tried on the command line
ArgNames == PolicyNames \cup {"bogus"}

\* faulty variant: a name that is no policy falls back to the default
drop_policy_lenient(name) ==
    [ok |-> TRUE, policy |-> IF name \in PolicyNames THEN name ELSE "none"]

\* the value parser of the drop_policy option
drop_policy_from_str(name) ==
    IF name \in PolicyNames THEN [ok |-> TRUE, policy |-> name]
    ELSE [ok |-> FALSE, policy |-> "unset"]

\* let args = Args::parse();  (prints the error and exits when a value does
\* not parse)
args_parse(name) ==
    /\ main_pc = "parse"
    /\ LET r == drop_policy_from_str(name)
       IN  /\ args_name' = name
           /\ args_drop_policy' = r.policy
           /\ main_pc' = IF r.ok THEN "new" ELSE "exited"
    /\ UNCHANGED <<pcVars, tsVars, brVars, selVars, ctlVars, bfVars, phVars, guiVars>>

\* let mut fg = Flowgraph::new(); and the first block added to it
flowgraph_new ==
    /\ main_pc = "new"
    /\ main_pc' = "blocks"
    /\ UNCHANGED <<args_name, args_drop_policy,
                   pcVars, tsVars, brVars, selVars, ctlVars, bfVars, phVars, guiVars>>

\* let sink_selector = Selector::<Complex32, 2, 1>::new(args.drop_policy);
MainSelectorNew == main_pc = "blocks" /\ selector_new(args_drop_policy)

\* let (_fg, mut handle) = block_on(rt.start(fg));
rt_start ==
    /\ main_pc = "blocks"
    /\ sel_policy # "unset"
    /\ main_pc' = "started"
    /\ UNCHANGED <<args_name, args_drop_policy,
                   pcVars, tsVars, brVars, selVars, ctlVars, bfVars, phVars, guiVars>>

\* the rt.spawn_background calls of the UDP server or client branch
MainSpawn == main_pc = "started" /\ Main

ArgsParse == \E name \in ArgNames : args_parse(name)

\* main up to its index loop, and the bridge tasks it spawns
NextMain ==
    \/ ArgsParse
    \/ flowgraph_new
    \/ MainSelectorNew
    \/ rt_start
    \/ MainSpawn
    \/ ServerRecvFirstShort
    \/ server_call_first
    \/ server_send_endpoint
    \/ server_send_endpoint2
    \/ InboundRecvShort
    \/ inbound_call
    \/ FrameQueuedBlob
    \/ OutboundAwait
    \/ OutboundNext

Init ==
    /\ in_fed = [i \in 0..1 |-> 0]
    /\ in_cons = [i \in 0..1 |-> 0]
    /\ in_fin = [i \in 0..1 |-> FALSE]
    /\ out_buf = <<>>
    /\ pc_produced = 0
    /\ pc_finished = FALSE
    /\ pc_last = NoWork
    /\ pc_tick = 0
    /\ ts_chan = <<>>
    /\ ts_values = <<>>
    /\ ts_finished = FALSE
    /\ ts_last = NoTsWork
    /\ br_mode = "init"
    /\ in_pc = "idle"
    /\ buf = [j \in 1..BufSize |-> 0]
    /\ in_n = 0
    /\ in_e = None
    /\ router_in = <<>>
    /\ rx_endpoint = None
    /\ rx_endpoint2 = None
    /\ out_pc = [p \in Protos |-> "idle"]
    /\ endpoint = [p \in Protos |-> None]
    /\ rxed_frames = [p \in Protos |-> <<>>]
    /\ udp_sent = <<>>
    /\ n_frames = 0
    /\ rx_log = <<>>
    /\ handoffs = [p \in Protos |-> 0]
    /\ sel_policy = "unset"
    /\ sel_index = 0
    /\ sel_in = [i \in SelInputs |-> <<>>]
    /\ sel_fed = [i \in SelInputs |-> 0]
    /\ sel_out = <<>>
    /\ sel_space = SelOutCap
    /\ sel_waited_out = FALSE
    /\ sel_scen = "A"
    /\ op_pc = [at |-> "read", b |-> None]
    /\ op_index = 0
    /\ op_lines = 0
    /\ op_last = 0
    /\ op_line = <<>>
    /\ op_ok = FALSE
    /\ ctl_rejected = [b \in Blocks |-> 0]
    /\ ctl_sent = <<>>
    /\ ctl_inflight = NoMsg
    /\ src_index = 0
    /\ msg_index = 0
    /\ msg_out = [d \in Dests |-> <<>>]
    /\ msg_n = 0
    /\ io_failed = [t \in Tasks |-> FALSE]
    /\ io_pc = [t \in Tasks |-> None]
    /\ n_faults = 0
    /\ discarded = [p \in Protos |-> FALSE]
    /\ ph_last = NoChunk
    /\ main_pc = "parse"
    /\ args_name = ""
    /\ args_drop_policy = "unset"
    /\ pu_last = NoUpdate

Produce == \E i \in 0..1 : \E n \in 1..fft_size : Upstream_produce(i, n)

Finish == \E i \in 0..1 : Upstream_finish(i)

Next ==
    \/ Produce
    \/ Finish
    \/ PhaseComparator_work
    \/ Timeseries_work
    \/ process_updates

Spec == Init /\ [][Next]_vars

SpecBridge == Init /\ [][NextBridge]_vars

SpecSel == Init /\ [][NextSel]_vars

SpecBridgeFaults == Init /\ [][NextBridgeFaults]_vars

SpecCtl == Init /\ [][NextCtl]_vars

SpecPhase == Init /\ [][PhaseChunk]_vars

SpecMain == Init /\ [][NextMain]_vars

\* The scheduler keeps invoking a block that is not finished, and the GUI
\* keeps calling process_updates before it draws.
FairSpec ==
    /\ Spec
    /\ WF_vars(PhaseComparator_work)
    /\ WF_vars(Timeseries_work)
    /\ WF_vars(process_updates)

-----------------------------------------------------------------------------
(* Claims about the PhaseComparator and the Timeseries block *)

\* C2: once input 0 reports upstream completion, the PhaseComparator asserts
\* finished in, or eventually after, a work invocation, whatever the available
\* input lengths and output space are.
C2_Completion == [](in_fin[0] => <>pc_finished)

\* C3 as stated: in every work invocation m = F * floor(min(a1, a2, s) / F),
\* s being the output space in elements.
C3_Original ==
    pc_last.ran =>
        pc_last.m = fft_size * (Min(Min(pc_last.a1, pc_last.a2), pc_last.s) \div fft_size)

\* C3 as amended: in every work invocation m = F * floor(min(a1, a2, s * F) / F):
\* an element of output space stands for one whole chunk of F input elements.
C3_MFormula ==
    pc_last.ran =>
        pc_last.m = fft_size *
            (Min(Min(pc_last.a1, pc_last.a2), pc_last.s * fft_size) \div fft_size)

\* an invocation in which the output space is smaller than the inputs and
\* work was done all the same
C3_Witness ==
    /\ pc_last.ran
    /\ pc_last.m > 0
    /\ pc_last.s < Min(pc_last.a1, pc_last.a2)

\* C6: in every work invocation of the PhaseComparator and of the Timeseries
\* block the count declared consumed on each input is at most the length of
\* that input's view, and the count declared produced is at most the output
\* space.
C6_PortBound ==
    /\ pc_last.ran =>
        /\ pc_last.c0 <= pc_last.a1
        /\ pc_last.c1 <= pc_last.a2
        /\ pc_last.p <= pc_last.s
    /\ ts_last.ran => ts_last.c <= ts_last.L

\* both blocks have worked on data, the PhaseComparator up to the limit of an
\* input and of the output space
C6_Witness ==
    /\ pc_last.ran /\ pc_last.m > 0
    /\ pc_last.c0 = pc_last.a1 /\ pc_last.p = pc_last.s
    /\ ts_last.ran /\ ts_last.L > 0

\* C7: a PhaseComparator work invocation with fewer than F elements on input
\* 0 or on input 1 produces nothing, consumes nothing from either input and
\* returns without error.
C7_Boundary ==
    (pc_last.ran /\ (pc_last.a1 < fft_size \/ pc_last.a2 < fft_size)) =>
        /\ pc_last.p = 0
        /\ pc_last.c0 = 0
        /\ pc_last.c1 = 0
        /\ pc_last.res = "ok"

\* an invocation with some, but fewer than F, elements on one input, a whole
\* chunk on the other and output space
C7_Witness ==
    /\ pc_last.ran
    /\ pc_last.a1 > 0 /\ pc_last.a1 < fft_size
    /\ pc_last.a2 >= fft_size
    /\ pc_last.s > 0

\* C8: in every PhaseComparator work invocation the same number m of elements
\* is consumed from input 0 and from input 1, m is a multiple of F, and
\* exactly m / F elements are produced.
C8_ConsumeProduce ==
    pc_last.ran =>
        /\ pc_last.c0 = pc_last.m
        /\ pc_last.c1 = pc_last.m
        /\ pc_last.m % fft_size = 0
        /\ pc_last.p * fft_size = pc_last.m

\* an invocation that processed two chunk pairs at once
C8_Witness == pc_last.ran /\ pc_last.p >= 2

\* C20: for every pair of reference-bin phases in (-pi, pi], the phase
\* difference an emitted value is computed from lies in (-pi, pi], and the
\* emitted time difference lies in (-T/2, T/2] for the reference period T.
C20_DiffWrapped ==
    ph_last.ran =>
        /\ -PhaseSteps < ph_last.diff /\ ph_last.diff <= PhaseSteps
        /\ -RefPeriod < 2 * ph_last.dt /\ 2 * ph_last.dt <= RefPeriod

-----------------------------------------------------------------------------
(* Claims about the UDP bridge tasks *)

\* C1: in UDP-server mode a frame queued on the frame channel of an outbound
\* bridge before the first inbound datagram arrived is dropped: it is never
\* sent to a UDP endpoint, not even once the endpoint is known.
C1_EarlyFrameDropped ==
    br_mode = "server" =>
        \A i \in 1..Len(udp_sent) : ~udp_sent[i].early

\* C9: in UDP-server mode the session endpoint is the sender address X of the
\* first datagram received; it is handed to each outbound loop exactly once
\* (never twice, and once the inbound task is in its loop), and every outbound
\* send goes to X, whatever the senders of later datagrams are.
C9_EndpointIsFirstSender ==
    br_mode = "server" =>
        /\ \A p \in Protos :
            /\ handoffs[p] <= 1
            /\ in_pc \in {"recv", "call"} => handoffs[p] = 1
            /\ endpoint[p] # None => (rx_log # <<>> /\ endpoint[p] = rx_log[1].from)
        /\ rx_endpoint # None => (rx_log # <<>> /\ rx_endpoint = rx_log[1].from)
        /\ rx_endpoint2 # None => (rx_log # <<>> /\ rx_endpoint2 = rx_log[1].from)
        /\ \A i \in 1..Len(udp_sent) :
            rx_log # <<>> /\ udp_sent[i].to = rx_log[1].from

\* both outbound tasks have sent a frame after a later datagram came from
\* another address than the first one
C9_Witness ==
    /\ br_mode = "server"
    /\ \A p \in Protos :
        \E i \in 1..Len(udp_sent) :
            /\ udp_sent[i].via = p
            /\ udp_sent[i].last # rx_log[1].from

\* C10: in server and in client mode every datagram received, the first one
\* included, is forwarded exactly once to message_in as a Blob holding exactly
\* the n received bytes, in the order of reception (the datagram received last
\* is still to be forwarded while the task is at its call).
C10_InboundForwarding ==
    LET blobs == [i \in 1..Len(router_in) |-> router_in[i].blob]
        rcvd  == [i \in 1..Len(rx_log) |-> rx_log[i].bytes]
    IN  /\ \A i \in 1..Len(router_in) : router_in[i].src = "udp"
        /\ IF in_pc \in {"call_first", "call"}
           THEN rx_log # <<>> /\ blobs = SubSeq(rcvd, 1, Len(rcvd) - 1)
           ELSE blobs = rcvd

\* server mode: two datagrams, a short one and one longer than the buffer,
\* have both been forwarded
C10_Witness ==
    /\ br_mode = "server"
    /\ Len(router_in) = 2
    /\ in_pc = "recv"
    /\ Len(router_in[1].blob) # Len(router_in[2].blob)

\* C11: outbound WLAN bridge, endpoint known: each Blob frame the task takes
\* from the decoded-frame channel results in exactly one datagram, sent to the
\* endpoint, whose payload is the frame's bytes without the first HeaderLen
\* bytes; the datagrams follow the order of the channel.
C11_WlanOutbound ==
    [][(outbound_next("wlan") /\ Head(rxed_frames["wlan"]).blob) =>
            LET v == Head(rxed_frames["wlan"]).v
            IN  /\ Len(udp_sent') = Len(udp_sent) + 1
                /\ SubSeq(udp_sent', 1, Len(udp_sent)) = udp_sent
                /\ udp_sent'[Len(udp_sent')].via = "wlan"
                /\ udp_sent'[Len(udp_sent')].to = endpoint["wlan"]
                /\ udp_sent'[Len(udp_sent')].bytes = SubSeq(v, HeaderLen + 1, Len(v))
                /\ out_pc'["wlan"] = "next"]_vars

\* C17: when a socket receive or send operation fails inside a bridge task,
\* that task ends its loop, and no sibling task ends because of it: a sibling
\* that has ended had a failure of its own or had learned the endpoint.
C17_FailureStops ==
    /\ \A t \in Tasks : io_failed[t] => io_pc[t] = "panicked"
    /\ io_failed["in"] =>
          \A p \in Protos :
              out_pc[p] = "panicked" => (io_failed[p] \/ endpoint[p] # None)

\* C18: a payload on a decoded-frame channel that is no Blob is discarded by
\* the outbound task: no datagram is sent for it, the task stays in its loop,
\* and the frames queued behind it stay in the channel to be handled.
C18_NonBlobDiscarded ==
    [][\A p \in Protos :
          (outbound_next(p) /\ ~Head(rxed_frames[p]).blob) =>
              /\ udp_sent' = udp_sent
              /\ out_pc'[p] = "next"
              /\ rxed_frames'[p] = Tail(rxed_frames[p])]_vars

\* an outbound task has sent a Blob frame after it had discarded a payload
\* that was no Blob
C18_Witness ==
    \E p \in Protos :
        /\ out_pc[p] = "next"
        /\ \E i \in 1..Len(udp_sent) : udp_sent[i].via = p /\ udp_sent[i].after_discard

\* C19: the WLAN and the Zigbee bridge share no endpoint state. Each outbound
\* task takes its endpoint from its own oneshot channel; a step of one task
\* (also its fault or its end) leaves the position, the endpoint and the frame
\* channel of the other untouched; the inbound task's two sends find both
\* receivers alive and so hand the endpoint to both; and whatever state one
\* outbound task is in, the other can take its endpoint once it was handed
\* over and its next frame once it has the endpoint.
C19_BridgesIndependent ==
    /\ [][br_mode # "init" => \A p \in Protos :
            /\ endpoint'[p] # endpoint[p] =>
                  (oneshot_of(p) # None /\ endpoint'[p] = oneshot_of(p))
            /\ (out_pc'[p] # out_pc[p] \/ Len(rxed_frames'[p]) < Len(rxed_frames[p])) =>
                  /\ out_pc'[other(p)] = out_pc[other(p)]
                  /\ endpoint'[other(p)] = endpoint[other(p)]
                  /\ rxed_frames'[other(p)] = rxed_frames[other(p)]]_vars
    /\ [](in_pc = "send_endpoint" => out_pc["wlan"] = "await_endpoint")
    /\ [](in_pc = "send_endpoint2" => out_pc["zigbee"] = "await_endpoint")
    /\ []((br_mode = "server" /\ in_pc \in {"recv", "call"}) =>
            (rx_endpoint = rx_log[1].from /\ rx_endpoint2 = rx_log[1].from))
    /\ [](\A p \in Protos :
            /\ (out_pc[p] = "await_endpoint" /\ oneshot_of(p) # None) =>
                  ENABLED outbound_await_endpoint(p)
            /\ (out_pc[p] = "next" /\ rxed_frames[p] # <<>>) =>
                  ENABLED outbound_next(p))

\* the WLAN task has ended by a fault, and the Zigbee task has sent a frame
\* that it took when the WLAN task had ended already
C19_Witness ==
    /\ br_mode = "server"
    /\ out_pc["wlan"] = "panicked"
    /\ \E i \in 1..Len(udp_sent) :
          udp_sent[i].via = "zigbee" /\ udp_sent[i].peer_pc = "panicked"

-----------------------------------------------------------------------------
(* Claims about the merge selector *)

\* the output elements <<input, number>> of unread elements
OutElems(s) == [j \in 1..Len(s) |-> <<s[j][1], s[j][2]>>]

\* s is strictly increasing
Increasing(s) == \A j \in 1..Len(s) - 1 : s[j] < s[j + 1]

\* C4: in every work invocation of the merge selector only the input that is
\* active at that invocation contributes to the output: exactly
\* min(elements available on the active input, output space) elements are
\* copied in order, consumed from the active input and produced on the output;
\* so the output is a concatenation of in-order runs, each taken from one
\* input: the elements of one input appear on it in increasing order.
C4_MergeActiveOnly ==
    /\ [][selector_work =>
            LET view == sel_in[sel_index]
                n == Min(Len(view), sel_space)
            IN  /\ sel_out' = sel_out \o OutElems(SubSeq(view, 1, n))
                /\ sel_in'[sel_index] = SubSeq(view, n + 1, Len(view))
                /\ sel_space' = sel_space - n]_vars
    /\ [](\A i \in SelInputs : Increasing(FromInput(sel_out, i)))

\* the output holds a run of input 0, then a run of input 1, then a run of
\* input 0 again, and the last invocation has filled the output space
C4_Witness ==
    /\ sel_space = 0
    /\ \E j, k, l \in 1..Len(sel_out) :
        /\ j < k /\ k < l
        /\ sel_out[j][1] = 0 /\ sel_out[k][1] = 1 /\ sel_out[l][1] = 0

-----------------------------------------------------------------------------
(* Claims about the operator's loop, the selectors' index and the router *)

\* C12: an index-setting control message whose index is out of range is
\* ignored by the merge selector and by the fan-out selector: the active index
\* is unchanged and always names an existing path, the data path can still be
\* invoked, the operator's loop goes on (the call returns, the next line is
\* read), and a later message with a valid index sets the index.
C12_OutOfRangeIgnored ==
    /\ [][(input_index_msg /\ ctl_inflight.pmt[2] \notin SelInputs) =>
              sel_index' = sel_index]_vars
    /\ [][(output_index_msg /\ ctl_inflight.pmt[2] \notin Dests) =>
              src_index' = src_index]_vars
    /\ [][(input_index_msg /\ ctl_inflight.pmt[2] \in SelInputs) =>
              sel_index' = ctl_inflight.pmt[2]]_vars
    /\ [][(output_index_msg /\ ctl_inflight.pmt[2] \in Dests) =>
              src_index' = ctl_inflight.pmt[2]]_vars
    /\ [](sel_index \in SelInputs /\ src_index \in Dests)
    /\ [](sel_policy # "unset" => ENABLED selector_work)
    /\ []((op_pc.at = "wait" /\ ctl_inflight = NoMsg) => ENABLED OpResume)
    /\ []((sel_policy # "unset" /\ op_pc.at = "read" /\ op_lines < MaxLines) =>
              ENABLED OpRead)

\* the merge selector ignored the index of the first line, and the index of
\* the second line has switched it (and the fan-out selector) to path 1
C12_Witness ==
    /\ ctl_rejected["sink"] = 1 /\ ctl_rejected["src"] = 1
    /\ op_lines = 2
    /\ op_pc.at = "read"
    /\ sel_index = 1 /\ src_index = 1

\* C13: the router has the destinations 0 and 1. An index message with index 2
\* (or any index out of range) is dropped: nothing is forwarded to either
\* destination, the selected index stays what it was and stays in range, so a
\* later payload goes where payloads went before.
C13_RouterIndexRejected ==
    /\ [][(output_selector_msg /\ ctl_inflight.pmt[2] \notin Dests) =>
              (msg_index' = msg_index /\ msg_out' = msg_out)]_vars
    /\ [][output_selector_msg => msg_out' = msg_out]_vars
    /\ [](msg_index \in Dests)
    /\ [](DOMAIN routing_table = Dests)

\* destination 1 was selected and got a payload, then the line "2" was
\* entered and handled, then destination 1 got the next payload
C13_Witness ==
    /\ op_pc.at = "read"
    /\ op_ok /\ parse_u32(retain(op_line)).v = 2
    /\ Len(msg_out[1]) = 2
    /\ ~msg_out[1][1].rej
    /\ msg_out[1][2].rej
    /\ ctl_rejected["msg"] = op_lines

\* C14: each payload handled on message_in is forwarded unmodified to exactly
\* one destination, the one at the index current when it is handled (index 0:
\* out0, the WLAN MAC's tx port; index 1: out1, the Zigbee MAC's tx port), and
\* to no other destination.
C14_RouterForwards ==
    /\ [][MessageIn =>
                /\ Len(msg_out'[msg_index]) = Len(msg_out[msg_index]) + 1
                /\ SubSeq(msg_out'[msg_index], 1, Len(msg_out[msg_index]))
                       = msg_out[msg_index]
                /\ msg_out'[msg_index][Len(msg_out'[msg_index])].blob = payload(msg_n + 1)
                /\ \A d \in Dests \ {msg_index} : msg_out'[d] = msg_out[d]]_vars
    /\ [](routing_table[0] = "wlan_mac.tx" /\ routing_table[1] = "zigbee_mac.tx")

\* a payload went to each destination
C14_Witness == msg_out[0] # <<>> /\ msg_out[1] # <<>>

\* C15: for every line that parses as a u32 the three control messages sent
\* are, in this order, the index for the fan-out selector, the same index for
\* the merge selector and the same index for the router (at any moment the
\* messages sent so far are a prefix of these three, and all three are sent
\* when the loop is back at reading); for a line that does not parse no
\* control message is sent.
C15_SameIndexToAll ==
    LET v == parse_u32(retain(op_line)).v
        order == <<"src", "sink", "msg">>
        expected == IF op_ok THEN [k \in 1..3 |-> [to |-> order[k], pmt |-> <<"U32", v>>]]
                    ELSE <<>>
    IN  /\ op_ok = parse_u32(retain(op_line)).ok
        /\ Len(ctl_sent) <= Len(expected)
        /\ ctl_sent = SubSeq(expected, 1, Len(ctl_sent))
        /\ op_pc.at = "read" => ctl_sent = expected
        /\ ctl_inflight # NoMsg => ctl_inflight = ctl_sent[Len(ctl_sent)]

\* a line was parsed once its white space was removed, and its index, which
\* is out of range, was sent to all three
C15_Witness ==
    /\ op_ok
    /\ Len(retain(op_line)) < Len(op_line)
    /\ op_index = 2
    /\ Len(ctl_sent) = 3
    /\ op_pc.at = "read"

\* C16: whenever no line is being handled, and from the application of the
\* last of the three messages on, the fan-out selector's active output, the
\* merge selector's active input and the router's destination all equal the
\* last in-range index the operator entered; the three differ only after the
\* first of the three messages was sent and before the last one is applied.
C16_EventualConsistency ==
    LET same == src_index = sel_index /\ sel_index = msg_index
        applied == op_pc.at = "read" \/ (op_pc = [at |-> "wait", b |-> "msg"]
                                          /\ ctl_inflight = NoMsg)
    IN  /\ applied => (same /\ sel_index = op_last)
        /\ ~same => (ctl_sent # <<>> /\ ~applied)

\* the operator has switched to path 1 and all three have followed
C16_Witness ==
    /\ op_pc.at = "read"
    /\ op_last = 1
    /\ src_index = 1 /\ sel_index = 1 /\ msg_index = 1

-----------------------------------------------------------------------------
(* Claims about rotated and identical channels *)

\* C21: when the reference bin of channel 2 is that of channel 1 rotated by
\* a constant theta in (-pi, pi], the emitted value equals
\* (reference period / 2 pi) * theta, for every phase of channel 1.
C21_RotatedTheta ==
    \A theta \in Phases :
        (ph_last.ran /\ ph_last.p2 = rotated(ph_last.p1, theta)) =>
            2 * PhaseSteps * ph_last.dt = RefPeriod * theta

\* C22: when both inputs carry the same stream, every value produced is
\* exactly 0, whatever the stream holds and however its elements are split
\* over invocations: the two chunks a value is computed from then have the
\* same reference-bin phase f[o], a function of the chunk's stream offset o.
C22_IdenticalZero ==
    [][\A j \in (Len(out_buf) + 1)..Len(out_buf') :
          LET o0 == out_buf'[j][1]
              o1 == out_buf'[j][2]
          IN  \A f \in [{o0, o1} -> Phases] :
                  diff_ns(phase_diff(f[o0], f[o1])) = 0]_vars

\* a later invocation that found different amounts on its two inputs has
\* produced a value
C22_Witness ==
    /\ pc_last.ran
    /\ pc_last.p >= 1
    /\ pc_last.a1 # pc_last.a2
    /\ pc_produced > pc_last.p

\* C25: the k-th value ever produced is computed from the k-th chunk of
\* fft_size elements of input 0 and the k-th chunk of input 1, both at the
\* stream offset (k - 1) * fft_size, whatever the split over invocations.
C25_OrderAndAlignment ==
    [][\A j \in 1..(Len(out_buf') - Len(out_buf)) :
          LET k == pc_produced + j
          IN  out_buf'[Len(out_buf) + j]
                  = <<(k - 1) * fft_size, (k - 1) * fft_size>>]_vars

\* three values were produced by at least two invocations, the last of which
\* produced two of them at once
C25_Witness ==
    /\ pc_last.ran
    /\ pc_last.p = 2
    /\ pc_produced = 3

-----------------------------------------------------------------------------
(* Claims about the index message of the merge selector *)

\* C23: handling the same index-setting message twice in a row leaves the
\* merge selector in the state one handling leaves it in: the same active
\* input, the same unread elements on every input (none dropped), the same
\* output and output space, the same policy.
C23_Idempotent ==
    sel_policy # "unset" =>
        \A v \in 0..2 :
            input_index_applied(input_index_applied(sel_state, v), v)
                = input_index_applied(sel_state, v)

\* the state an index message with value 1 leaves behind (handling it again
\* gives this very state), with two unread elements on input 0, which the
\* message made inactive, one on input 1, and with elements already copied
C23_Witness ==
    /\ sel_policy # "unset"
    /\ sel_index = 1
    /\ input_index_applied(sel_state, 1) = sel_state
    /\ Len(sel_in[0]) >= 2
    /\ sel_in[1] # <<>>
    /\ sel_out # <<>>
    /\ sel_out[Len(sel_out)][1] = 0

-----------------------------------------------------------------------------
(* Claims about the start of main *)

\* C24: once the command line is parsed with a drop-policy name that is no
\* policy, the process has exited: no block has been created, the flowgraph
\* has not been started, no bridge task has been spawned, and main takes no
\* further step.
C24_InvalidPolicyFatal ==
    (main_pc # "parse" /\ args_name \notin PolicyNames) =>
        /\ main_pc = "exited"
        /\ sel_policy = "unset"
        /\ br_mode = "init"
        /\ in_pc = "idle"
        /\ \A p \in Protos : out_pc[p] = "idle"
        /\ ~ENABLED NextMain

\* the command line named a policy that does not exist
C24_Witness == main_pc = "exited" /\ args_name = "bogus"

-----------------------------------------------------------------------------
(* Claims about idle invocations, the end of the stream and the GUI lines *)

\* C26: an invocation that finds no element on an input processes nothing:
\* the PhaseComparator consumes nothing, produces nothing and returns without
\* error, and the Timeseries block consumes nothing and enqueues nothing on
\* the channel of its line.
C26_IdleNoEffect ==
    /\ (pc_last.ran /\ (pc_last.a1 = 0 \/ pc_last.a2 = 0)) =>
           (pc_last.c0 = 0 /\ pc_last.c1 = 0 /\ pc_last.p = 0 /\ pc_last.res = "ok")
    /\ (ts_last.ran /\ ts_last.L = 0) => (ts_last.c = 0 /\ ~ts_last.sent)

\* C27: when an invocation of the PhaseComparator asserts finished, fewer
\* than fft_size unread elements remain on input 0 or on input 1: it leaves
\* no whole chunk pair behind.
C27_NoChunkPairLeft ==
    [][(PhaseComparator_work /\ pc_finished') =>
          \/ in_fed'[0] - in_cons'[0] < fft_size
          \/ in_fed'[1] - in_cons'[1] < fft_size]_vars

\* C29: an invocation of the Timeseries block that declares elements consumed
\* has enqueued them on the channel of its line, also when the channel is
\* full.
C29_ConsumedIsEnqueued ==
    (ts_last.ran /\ ts_last.c > 0) => ts_last.sent

\* C30: a call of process_updates leaves the channel of the line empty and at
\* most max_values values on the line, and these are the last ones of the
\* values held before followed by the received buffers, in arrival order.
C30_DrainedTrimmedRecent ==
    [][process_updates =>
          LET all == ts_values \o Flatten(ts_chan)
              n == Len(ts_values')
          IN  /\ ts_chan' = <<>>
              /\ n <= max_values
              /\ n = Min(Len(all), max_values)
              /\ \A j \in 1..n : ts_values'[j] = all[Len(all) - n + j]]_vars

\* the last call of process_updates received values and removed the oldest
\* ones from the front;
\* the channel is empty and the line is full
C30_Witness ==
    /\ pu_last.popped >= 1
    /\ ts_chan = <<>>
    /\ Len(ts_values) = max_values

-----------------------------------------------------------------------------
(* Claims about frames of any length *)

\* C28: whatever the length of the Blob the WLAN outbound task takes from
\* the frame channel, shorter than the header included, the task does not
\* fault: it is in its loop again, ready for the next frame.
C28_AnyLengthNoFault ==
    [][outbound_next("wlan") => out_pc'["wlan"] = "next"]_vars

=============================================================================
